---- MODULE Spec2Model ----
(***************************************************************************)
(* The instruction codec (src/src/instruction.rs) and the optional-value   *)
(* codec of the account records (src/src/state.rs) of the token program.   *)
(*                                                                         *)
(* A byte is a number in 0..255 and a buffer a sequence of bytes.  A       *)
(* Pubkey is its 32 bytes.  A u64 is held as its four 16-bit digits, most  *)
(* significant first (TLC's integers are 32 bits wide), so that every      *)
(* value of the type, u64::MAX included, can be encoded.  A &str is its    *)
(* bytes, as in Rust, and is well-formed when they are valid UTF-8.        *)
(***************************************************************************)
EXTENDS Integers, Sequences, FiniteSets, TLC

VARIABLES ix, buf, res, extra, resExt, pc, src, dst, keyRes, spc,
          rkind, rval, rbuf, rdst, rres, rpc, tagMatch, frozen, depth, nativeRet,
          call, built

ixVars == <<ix, buf, res, extra, resExt, pc>>
stVars == <<src, dst, keyRes, spc>>
recVars == <<rkind, rval, rbuf, rdst, rres, rpc, tagMatch, frozen, depth, nativeRet>>
bldVars == <<call, built>>
vars == <<ixVars, stVars, recVars, bldVars>>

(***************************************************************************)
(* Program constants.                                                      *)
(***************************************************************************)
PUBKEY_BYTES == 32
U64_BYTES == 8

(***************************************************************************)
(* Bounds of the inputs.                                                   *)
(***************************************************************************)
\* longest payload (the bytes after the tag) of a raw input buffer
MaxPayload == 67
\* raw input buffers carry every first byte 0..MaxTag, and 255
MaxTag == 26
\* longest run of trailing bytes appended to a buffer
MaxExtra == 2

Byte == 0 .. 255

(***************************************************************************)
(* Result<T, ProgramError>.                                                *)
(***************************************************************************)
Ok(v) == [ok |-> TRUE, val |-> v]
Err(e) == [ok |-> FALSE, err |-> e]
\* the call did not return: it panicked
Panic(msg) == [ok |-> FALSE, panicked |-> msg]

\* TokenError::InvalidInstruction, converted into a ProgramError
InvalidInstruction == "InvalidInstruction"
\* ProgramError::InvalidArgument
InvalidArgument == "InvalidArgument"
\* ProgramError::InvalidAccountData
InvalidAccountData == "InvalidAccountData"

(***************************************************************************)
(* COption<T>: None is the empty tuple, Some(v) the tuple holding v.       *)
(***************************************************************************)
COptionNone == <<>>
COptionSome(v) == <<v>>
IsSome(o) == Len(o) = 1

(***************************************************************************)
(* Slices.                                                                 *)
(***************************************************************************)
\* the first n elements of s (n <= Len(s))
Take(s, n) == SubSeq(s, 1, n)
\* s without its first n elements (n <= Len(s))
Drop(s, n) == SubSeq(s, n + 1, Len(s))

(***************************************************************************)
(* u64::to_le_bytes and u64::from_le_bytes, on the four 16-bit digits.     *)
(***************************************************************************)
\* u64::to_be_bytes in the place of to_le_bytes
ToBeBytes(v) ==
    [i \in 1 .. U64_BYTES |->
        LET digit == v[1 + ((i - 1) \div 2)]
        IN  IF (i - 1) % 2 = 0 THEN digit \div 256 ELSE digit % 256]

ToLeBytes(v) ==
    [i \in 1 .. U64_BYTES |->
        LET digit == v[4 - ((i - 1) \div 2)]
        IN  IF (i - 1) % 2 = 0 THEN digit % 256 ELSE digit \div 256]

FromLeBytes(b) ==
    [j \in 1 .. 4 |-> b[2 * (4 - j) + 1] + 256 * b[2 * (4 - j) + 2]]

(***************************************************************************)
(* std::str::from_utf8: the bytes are well-formed UTF-8 (no overlong form, *)
(* no surrogate, nothing above U+10FFFF, no truncated sequence).           *)
(***************************************************************************)
IsCont(b) == b >= 128 /\ b <= 191

RECURSIVE IsValidUtf8(_)
IsValidUtf8(s) ==
    IF s = <<>> THEN TRUE
    ELSE LET b == s[1]
             n == Len(s)
         IN  IF b <= 127 THEN IsValidUtf8(Drop(s, 1))
             ELSE IF b >= 194 /\ b <= 223
                  THEN n >= 2 /\ IsCont(s[2]) /\ IsValidUtf8(Drop(s, 2))
             ELSE IF b >= 224 /\ b <= 239
                  THEN /\ n >= 3
                       /\ IsCont(s[2])
                       /\ IsCont(s[3])
                       /\ (b = 224 => s[2] >= 160)
                       /\ (b = 237 => s[2] <= 159)
                       /\ IsValidUtf8(Drop(s, 3))
             ELSE IF b >= 240 /\ b <= 244
                  THEN /\ n >= 4
                       /\ IsCont(s[2])
                       /\ IsCont(s[3])
                       /\ IsCont(s[4])
                       /\ (b = 240 => s[2] >= 144)
                       /\ (b = 244 => s[2] <= 143)
                       /\ IsValidUtf8(Drop(s, 4))
             ELSE FALSE

(***************************************************************************)
(* AuthorityType.                                                          *)
(***************************************************************************)
AuthorityTypes == {"MintTokens", "FreezeAccount", "AccountOwner", "CloseAccount"}

\* AuthorityType::into with the codes of the last two kinds exchanged
AuthorityTypeIntoSwapped(a) ==
    CASE a = "MintTokens" -> 0
      [] a = "FreezeAccount" -> 1
      [] a = "AccountOwner" -> 3
      [] a = "CloseAccount" -> 2

AuthorityTypeInto(a) ==
    CASE a = "MintTokens" -> 0
      [] a = "FreezeAccount" -> 1
      [] a = "AccountOwner" -> 2
      [] a = "CloseAccount" -> 3

AuthorityTypeFrom(index) ==
    CASE index = 0 -> Ok("MintTokens")
      [] index = 1 -> Ok("FreezeAccount")
      [] index = 2 -> Ok("AccountOwner")
      [] index = 3 -> Ok("CloseAccount")
      [] OTHER -> Err(InvalidArgument)

(***************************************************************************)
(* The helpers of TokenInstruction::unpack.  Each returns Ok of the value  *)
(* read and the rest of the input, or Err.  The source calls unpack_64 by  *)
(* the names unpack_amount and unpack_b4, and defines pack_pubkey_option   *)
(* under the name pack_pubkey_optioin; each call is read as a call of the  *)
(* one helper with that signature.                                         *)
(***************************************************************************)
unpack_pubkey(input) ==
    IF Len(input) >= PUBKEY_BYTES
    THEN Ok(<<Take(input, PUBKEY_BYTES), Drop(input, PUBKEY_BYTES)>>)
    ELSE Err(InvalidInstruction)

unpack_pubkey_option(input) ==
    IF input = <<>> THEN Err(InvalidInstruction)
    ELSE LET rest == Tail(input)
         IN  IF Head(input) = 0 THEN Ok(<<COptionNone, rest>>)
             ELSE IF Head(input) = 1 /\ Len(rest) >= PUBKEY_BYTES
                  THEN Ok(<<COptionSome(Take(rest, PUBKEY_BYTES)),
                            Drop(rest, PUBKEY_BYTES)>>)
             ELSE Err(InvalidInstruction)

\* unpack_64 reading the bytes that are missing as zeros
unpack_64_padded(input) ==
    LET padded == input \o [i \in 1 .. U64_BYTES |-> 0]
    IN  Ok(<<FromLeBytes(Take(padded, U64_BYTES)), Drop(padded, U64_BYTES)>>)

unpack_64(input) ==
    IF Len(input) >= U64_BYTES
    THEN Ok(<<FromLeBytes(Take(input, U64_BYTES)), Drop(input, U64_BYTES)>>)
    ELSE Err(InvalidInstruction)

\* unpack_amount_decimals taking a missing decimals byte as 0
unpack_amount_decimals_default(input) ==
    LET a == unpack_64(input)
    IN  IF ~a.ok THEN a
        ELSE LET rest == a.val[2]
             IN  IF rest = <<>> THEN Ok(<<a.val[1], 0, rest>>)
                 ELSE Ok(<<a.val[1], Head(rest), Tail(rest)>>)

unpack_amount_decimals(input) ==
    LET a == unpack_64(input)
    IN  IF ~a.ok THEN a
        ELSE LET rest == a.val[2]
             IN  IF rest = <<>> THEN Err(InvalidInstruction)
                 ELSE Ok(<<a.val[1], Head(rest), Tail(rest)>>)

\* pack_pubkey_option writing the 4-byte presence tag of the record layout
pack_pubkey_option_wide_tag(value) ==
    IF IsSome(value) THEN <<1, 0, 0, 0>> \o value[1] ELSE <<0, 0, 0, 0>>

\* pack_pubkey_option writing 32 zero bytes after the presence byte of None
pack_pubkey_option_padded(value) ==
    IF IsSome(value) THEN <<1>> \o value[1]
    ELSE <<0>> \o [i \in 1 .. PUBKEY_BYTES |-> 0]

pack_pubkey_option(value) ==
    IF IsSome(value) THEN <<1>> \o value[1] ELSE <<0>>

(***************************************************************************)
(* TokenInstruction::unpack.                                               *)
(***************************************************************************)
\* tags 0 and 20: decimals, mint authority, optional freeze authority
unpack_mint_fields(variant, rest) ==
    IF rest = <<>> THEN Err(InvalidInstruction)
    ELSE LET decimals == Head(rest)
             k == unpack_pubkey(Tail(rest))
         IN  IF ~k.ok THEN k
             ELSE LET f == unpack_pubkey_option(k.val[2])
                  IN  IF ~f.ok THEN f
                      ELSE Ok([variant |-> variant,
                               decimals |-> decimals,
                               mint_authority |-> k.val[1],
                               freeze_authority |-> f.val[1]])

\* the branch of tag 2 copied to tag 19 with its variant left as it was
unpack_m_copied(variant, rest) ==
    IF rest = <<>> THEN Err(InvalidInstruction)
    ELSE Ok([variant |-> "InitializeMultisig", m |-> Head(rest)])

\* tags 2 and 19: the threshold m is the first byte of the payload
unpack_m(variant, rest) ==
    IF rest = <<>> THEN Err(InvalidInstruction)
    ELSE Ok([variant |-> variant, m |-> Head(rest)])

\* the amount branch with the arm of tag 8 left out
unpack_amount_inline_no_burn(tag, rest) ==
    IF Len(rest) < 8 THEN Err(InvalidInstruction)
    ELSE LET amount == FromLeBytes(Take(rest, 8))
         IN  CASE tag = 3 -> Ok([variant |-> "Transfer", amount |-> amount])
               [] tag = 4 -> Ok([variant |-> "Approve", amount |-> amount])
               [] tag = 7 -> Ok([variant |-> "MintTo", amount |-> amount])
               [] OTHER -> Panic("unreachable")

\* tags 3, 4, 7 and 8: the amount is the first 8 bytes of the payload
unpack_amount_inline(tag, rest) ==
    IF Len(rest) < 8 THEN Err(InvalidInstruction)
    ELSE LET amount == FromLeBytes(Take(rest, 8))
         IN  CASE tag = 3 -> Ok([variant |-> "Transfer", amount |-> amount])
               [] tag = 4 -> Ok([variant |-> "Approve", amount |-> amount])
               [] tag = 7 -> Ok([variant |-> "MintTo", amount |-> amount])
               [] tag = 8 -> Ok([variant |-> "Burn", amount |-> amount])
               [] OTHER -> Panic("unreachable")

\* tag 6: authority type, optional new authority
unpack_set_authority(rest) ==
    IF rest = <<>> THEN Err(InvalidInstruction)
    ELSE LET t == AuthorityTypeFrom(Head(rest))
         IN  IF ~t.ok THEN t
             ELSE LET a == unpack_pubkey_option(Tail(rest))
                  IN  IF ~a.ok THEN a
                      ELSE Ok([variant |-> "SetAuthority",
                               authority_type |-> t.val,
                               new_authority |-> a.val[1]])

\* tags 12..15: amount and decimals
unpack_checked(variant, rest) ==
    LET r == unpack_amount_decimals(rest)
    IN  IF ~r.ok THEN r
        ELSE Ok([variant |-> variant, amount |-> r.val[1], decimals |-> r.val[2]])

\* the owner branch rejecting bytes after the key
unpack_owner_strict(variant, rest) ==
    LET k == unpack_pubkey(rest)
    IN  IF ~k.ok THEN k
        ELSE IF k.val[2] # <<>> THEN Err(InvalidInstruction)
        ELSE Ok([variant |-> variant, owner |-> k.val[1]])

\* tags 16 and 18: the owner key
unpack_owner(variant, rest) ==
    LET k == unpack_pubkey(rest)
    IN  IF ~k.ok THEN k ELSE Ok([variant |-> variant, owner |-> k.val[1]])

\* tag 23: the amount
unpack_amount_to_ui(rest) ==
    LET a == unpack_64(rest)
    IN  IF ~a.ok THEN a
        ELSE Ok([variant |-> "AmountToUiAmount", amount |-> a.val[1]])

\* the text branch without the UTF-8 check (from_utf8_unchecked)
unpack_ui_amount_unchecked(rest) ==
    Ok([variant |-> "UiAmountToAmount", ui_amount |-> rest])

\* tag 24: all the remaining bytes are the text
unpack_ui_amount(rest) ==
    IF IsValidUtf8(rest)
    THEN Ok([variant |-> "UiAmountToAmount", ui_amount |-> rest])
    ELSE Err(InvalidInstruction)

unpack(input) ==
    IF input = <<>> THEN Err(InvalidInstruction)
    ELSE LET tag == Head(input)
             rest == Tail(input)
         IN  CASE tag = 0 -> unpack_mint_fields("InitializeMint", rest)
               [] tag = 1 -> Ok([variant |-> "InitializeAccount"])
               [] tag = 2 -> unpack_m("InitializeMultisig", rest)
               [] tag \in {3, 4, 7, 8} -> unpack_amount_inline(tag, rest)
               [] tag = 5 -> Ok([variant |-> "Revoke"])
               [] tag = 6 -> unpack_set_authority(rest)
               [] tag = 9 -> Ok([variant |-> "CloseAccount"])
               [] tag = 10 -> Ok([variant |-> "FreezeAccount"])
               [] tag = 11 -> Ok([variant |-> "ThawAccount"])
               [] tag = 12 -> unpack_checked("TransferChecked", rest)
               [] tag = 13 -> unpack_checked("ApproveChecked", rest)
               [] tag = 14 -> unpack_checked("MintToChecked", rest)
               [] tag = 15 -> unpack_checked("BurnChecked", rest)
               [] tag = 16 -> unpack_owner("InitializeAccount2", rest)
               [] tag = 17 -> Ok([variant |-> "SyncNative"])
               [] tag = 18 -> unpack_owner("InitializeAccount3", rest)
               [] tag = 19 -> unpack_m("InitializeMultisig2", rest)
               [] tag = 20 -> unpack_mint_fields("InitializeMint2", rest)
               [] tag = 21 -> Ok([variant |-> "GetAccountDataSize"])
               [] tag = 22 -> Ok([variant |-> "InitializeImmutableOwner"])
               [] tag = 23 -> unpack_amount_to_ui(rest)
               [] tag = 24 -> unpack_ui_amount(rest)
               [] OTHER -> Err(InvalidInstruction)

(***************************************************************************)
(* TokenInstruction::pack.                                                 *)
(***************************************************************************)
\* what stands for the buffer when pack reaches unreachable!(): no byte
UnreachableBuf == <<0 - 1>>

pack(x) ==
    LET v == x.variant
    IN  CASE v = "InitializeMint" ->
                <<0, x.decimals>> \o x.mint_authority
                    \o pack_pubkey_option(x.freeze_authority)
          [] v = "InitializeAccount" -> <<1>>
          [] v = "InitializeMultisig" -> <<2, x.m>>
          [] v = "Transfer" -> <<3>> \o ToLeBytes(x.amount)
          [] v = "Approve" -> <<4>> \o ToLeBytes(x.amount)
          [] v = "MintTo" -> <<7>> \o ToLeBytes(x.amount)
          [] v = "Burn" -> <<8>> \o ToLeBytes(x.amount)
          [] v = "Revoke" -> <<5>>
          [] v = "SetAuthority" ->
                <<6, AuthorityTypeInto(x.authority_type)>>
                    \o pack_pubkey_option(x.new_authority)
          [] v = "CloseAccount" -> <<9>>
          [] v = "FreezeAccount" -> <<10>>
          [] v = "ThawAccount" -> <<11>>
          [] v = "TransferChecked" -> <<12>> \o ToLeBytes(x.amount) \o <<x.decimals>>
          [] v = "ApproveChecked" -> <<13>> \o ToLeBytes(x.amount) \o <<x.decimals>>
          [] v = "MintToChecked" -> <<14>> \o ToLeBytes(x.amount) \o <<x.decimals>>
          [] v = "BurnChecked" -> <<15>> \o ToLeBytes(x.amount) \o <<x.decimals>>
          [] v = "InitializeAccount2" -> <<16>> \o x.owner
          [] v = "SyncNative" -> <<17>>
          [] v = "InitializeAccount3" -> <<18>> \o x.owner
          [] v = "InitializeMultisig2" -> <<19, x.m>>
          [] v = "InitializeMint2" ->
                <<20, x.decimals>> \o x.mint_authority
                    \o pack_pubkey_option(x.freeze_authority)
          [] v = "GetAccountDataSize" -> <<21>>
          [] v = "InitializeImmutableOwner" -> <<22>>
          [] v = "AmountToUiAmount" -> <<23>> \o ToLeBytes(x.amount)
          [] v = "UiAmountToAmount" -> <<24>> \o x.ui_amount
          [] OTHER -> UnreachableBuf

(***************************************************************************)
(* The optional-key codec of the account records (state.rs).  The          *)
(* destination is the 36-byte field, which pack_coption_key updates in     *)
(* place: the operator returns the field as it is after the call.          *)
(***************************************************************************)
pack_coption_key(s, d) ==
    IF IsSome(s) THEN <<1, 0, 0, 0>> \o s[1]
    ELSE <<0, 0, 0, 0>> \o Drop(d, 4)

\* unpack_coption_key deciding on the first byte of the tag alone
unpack_coption_key_first_byte(d) ==
    IF d[1] = 0 THEN Ok(COptionNone)
    ELSE IF d[1] = 1 THEN Ok(COptionSome(Drop(d, 4)))
    ELSE Err(InvalidAccountData)

unpack_coption_key(d) ==
    LET tag == Take(d, 4)
        body == Drop(d, 4)
    IN  IF tag = <<0, 0, 0, 0>> THEN Ok(COptionNone)
        ELSE IF tag = <<1, 0, 0, 0>> THEN Ok(COptionSome(body))
        ELSE Err(InvalidAccountData)

(***************************************************************************)
(* The optional-amount codec of the account records.  pack_coption_u64     *)
(* writes the tag to bytes 0..4 and the amount, little-endian, to bytes    *)
(* 4..12.  unpack_coption_u64 splits the field into 8 and 4 bytes, matches *)
(* the 8-byte tag against the 4-byte patterns and reads the 4-byte body    *)
(* with from_be_bytes.  The match of an 8-byte array against a 4-byte      *)
(* pattern has no meaning in Rust; the model takes both ways it can be     *)
(* given one: the pattern is compared with the first four bytes of the tag *)
(* ("prefix"), or it matches no 8-byte tag at all ("never").               *)
(***************************************************************************)
TagMatches == {"prefix", "never"}

pack_coption_u64(s, d) ==
    IF IsSome(s) THEN <<1, 0, 0, 0>> \o ToLeBytes(s[1])
    ELSE <<0, 0, 0, 0>> \o Drop(d, 4)

\* u64::from_be_bytes of the four bytes of the body
FromBeBytes4(b) == <<0, 0, 256 * b[1] + b[2], 256 * b[3] + b[4]>>

unpack_coption_u64(d, how) ==
    LET tag == Take(d, 8)
        body == Drop(d, 8)
    IN  IF how = "never" THEN Err(InvalidAccountData)
        ELSE IF Take(tag, 4) = <<0, 0, 0, 0>> THEN Ok(COptionNone)
        ELSE IF Take(tag, 4) = <<1, 0, 0, 0>> THEN Ok(COptionSome(FromBeBytes4(body)))
        ELSE Err(InvalidAccountData)

(***************************************************************************)
(* Mint: impl Pack.  The buffers are sequences of bytes; field(b, off, n)  *)
(* is the n bytes of b that follow the first off bytes.                    *)
(***************************************************************************)
MINT_LEN == 82
ACCOUNT_LEN == 165

\* the field taken one byte late, the byte after the last being the first
FieldOneLate(b, off, n) == [i \in 1 .. n |-> b[((off + i) % Len(b)) + 1]]

Field(b, off, n) == SubSeq(b, off + 1, off + n)

\* array_ref![src, 0, len]: the slice src[0 .. len], a panic when src is shorter
ArrayRefPanics(b, len) == Len(b) < len

\* the flag read as a C boolean: every byte but 0 is true
MintIsInitializedNonZero(byte) == Ok(byte # 0)

\* the match on the is_initialized byte
MintIsInitialized(byte) ==
    CASE byte = 0 -> Ok(FALSE)
      [] byte = 1 -> Ok(TRUE)
      [] OTHER -> Err(InvalidAccountData)

MintUnpackFromSlice(b) ==
    IF ArrayRefPanics(b, MINT_LEN) THEN Panic("range end index out of range")
    ELSE LET mint_authority == unpack_coption_key(Field(b, 0, 36))
             supply == FromLeBytes(Field(b, 36, 8))
             decimals == b[45]
             is_initialized == MintIsInitialized(b[46])
             freeze_authority == unpack_coption_key(Field(b, 46, 36))
         IN  IF ~mint_authority.ok THEN mint_authority
             ELSE IF ~is_initialized.ok THEN is_initialized
             ELSE IF ~freeze_authority.ok THEN freeze_authority
             ELSE Ok([mint_authority |-> mint_authority.val,
                      supply |-> supply,
                      decimals |-> decimals,
                      is_initialized |-> is_initialized.val,
                      freeze_authority |-> freeze_authority.val])

\* the destination after the call (it holds at least MINT_LEN bytes)
MintPackIntoSlice(m, d) ==
    pack_coption_key(m.mint_authority, Field(d, 0, 36))
        \o ToLeBytes(m.supply)
        \o <<m.decimals>>
        \o <<IF m.is_initialized THEN 1 ELSE 0>>
        \o pack_coption_key(m.freeze_authority, Field(d, 46, 36))
        \o Drop(d, MINT_LEN)

(***************************************************************************)
(* AccountState and Account: impl Pack, is_frozen.                         *)
(***************************************************************************)
AccountStates == {"Uninitialized", "Initialized", "Frozen"}

\* state as u8: the discriminants follow the order of the declaration
AccountStateAsU8(st) ==
    CASE st = "Uninitialized" -> 0
      [] st = "Initialized" -> 1
      [] st = "Frozen" -> 2

\* a conversion that takes every byte from 2 on for Frozen
AccountStateTryFromPrimitiveLenient(b) ==
    CASE b = 0 -> Ok("Uninitialized")
      [] b = 1 -> Ok("Initialized")
      [] OTHER -> Ok("Frozen")

\* AccountState::try_from_primitive
AccountStateTryFromPrimitive(b) ==
    CASE b = 0 -> Ok("Uninitialized")
      [] b = 1 -> Ok("Initialized")
      [] b = 2 -> Ok("Frozen")
      [] OTHER -> Err(InvalidAccountData)

AccountUnpackFromSlice(b, how) ==
    IF ArrayRefPanics(b, ACCOUNT_LEN) THEN Panic("range end index out of range")
    ELSE LET delegate == unpack_coption_key(Field(b, 72, 36))
             state == AccountStateTryFromPrimitive(b[109])
             is_native == unpack_coption_u64(Field(b, 109, 12), how)
             close_authority == unpack_coption_key(Field(b, 129, 36))
         IN  IF ~delegate.ok THEN delegate
             ELSE IF ~state.ok THEN Err(InvalidAccountData)
             ELSE IF ~is_native.ok THEN is_native
             ELSE IF ~close_authority.ok THEN close_authority
             ELSE Ok([mint |-> Field(b, 0, 32),
                      owner |-> Field(b, 32, 32),
                      amount |-> FromLeBytes(Field(b, 64, 8)),
                      delegate |-> delegate.val,
                      state |-> state.val,
                      is_native |-> is_native.val,
                      delegated_amount |-> FromLeBytes(Field(b, 121, 8)),
                      close_authority |-> close_authority.val])

\* Account::pack_pack_into_slice, the pack_into_slice of the Pack trait: the
\* destination after the call (it holds at least ACCOUNT_LEN bytes)
AccountPackIntoSlice(a, d) ==
    a.mint
        \o a.owner
        \o ToLeBytes(a.amount)
        \o pack_coption_key(a.delegate, Field(d, 72, 36))
        \o <<AccountStateAsU8(a.state)>>
        \o pack_coption_u64(a.is_native, Field(d, 109, 12))
        \o ToLeBytes(a.delegated_amount)
        \o pack_coption_key(a.close_authority, Field(d, 129, 36))
        \o Drop(d, ACCOUNT_LEN)

is_frozen(a) == a.state = "Frozen"

(***************************************************************************)
(* Multisig.  state.rs declares the record and neither its codec nor       *)
(* MAX_SIGNERS; the codec is the one the specification describes: m, n and *)
(* the initialization flag, one byte each, then MAX_SIGNERS keys; a short  *)
(* buffer, a flag other than 0 and 1, and m, n outside                     *)
(* 1 <= m <= n <= MAX_SIGNERS are errors.                                  *)
(***************************************************************************)
MIN_SIGNERS == 1
MAX_SIGNERS == 11
MULTISIG_LEN == 3 + PUBKEY_BYTES * MAX_SIGNERS

MalformedBuffer == "MalformedBuffer"
InvalidBoolean == "InvalidBoolean"
ThresholdViolation == "ThresholdViolation"

\* the decoder without the check of m and n
MultisigUnpackUnvalidated(b) ==
    IF Len(b) < MULTISIG_LEN THEN Err(MalformedBuffer)
    ELSE IF b[3] \notin {0, 1} THEN Err(InvalidBoolean)
    ELSE Ok([m |-> b[1],
             n |-> b[2],
             is_initialized |-> (b[3] = 1),
             signers |-> [i \in 1 .. MAX_SIGNERS |->
                             Field(b, 3 + PUBKEY_BYTES * (i - 1), PUBKEY_BYTES)]])

MultisigUnpackFromSlice(b) ==
    IF Len(b) < MULTISIG_LEN THEN Err(MalformedBuffer)
    ELSE IF b[3] \notin {0, 1} THEN Err(InvalidBoolean)
    ELSE IF ~(1 <= b[1] /\ b[1] <= b[2] /\ b[2] <= MAX_SIGNERS)
         THEN Err(ThresholdViolation)
    ELSE Ok([m |-> b[1],
             n |-> b[2],
             is_initialized |-> (b[3] = 1),
             signers |-> [i \in 1 .. MAX_SIGNERS |->
                             Field(b, 3 + PUBKEY_BYTES * (i - 1), PUBKEY_BYTES)]])

MultisigPackIntoSlice(v, d) ==
    <<v.m, v.n, IF v.is_initialized THEN 1 ELSE 0>>
        \o [i \in 1 .. PUBKEY_BYTES * MAX_SIGNERS |->
                v.signers[((i - 1) \div PUBKEY_BYTES) + 1][((i - 1) % PUBKEY_BYTES) + 1]]
        \o Drop(d, MULTISIG_LEN)

(***************************************************************************)
(* The builders of the multisig instructions (instruction.rs).             *)
(* check_program_account is defined outside the files at hand: it accepts  *)
(* the id of the token program and rejects every other id.                 *)
(***************************************************************************)
\* is_valid_signer_index with the upper end of the range left out
is_valid_signer_index_exclusive(index) ==
    MIN_SIGNERS <= index /\ index < MAX_SIGNERS

is_valid_signer_index(index) ==
    MIN_SIGNERS <= index /\ index <= MAX_SIGNERS

\* ids of the token program, of another program, and of the rent sysvar
TokenProgramId == [i \in 1 .. PUBKEY_BYTES |-> 6]
OtherProgramId == [i \in 1 .. PUBKEY_BYTES |-> 5]
RentSysvarId == [i \in 1 .. PUBKEY_BYTES |-> 4]

IncorrectProgramId == "IncorrectProgramId"
MissingRequiredSignature == "MissingRequiredSignature"

check_program_account(id) ==
    IF id = TokenProgramId THEN Ok(<<>>) ELSE Err(IncorrectProgramId)

\* AccountMeta::new and AccountMeta::new_readonly
AccountMetaNew(k, is_signer) ==
    [pubkey |-> k, is_signer |-> is_signer, is_writable |-> TRUE]
AccountMetaNewReadonly(k, is_signer) ==
    [pubkey |-> k, is_signer |-> is_signer, is_writable |-> FALSE]

initialize_multisig(token_program_id, multisig_pubkey, signer_pubkeys, m) ==
    LET c == check_program_account(token_program_id)
    IN  IF ~c.ok THEN c
        ELSE IF \/ ~is_valid_signer_index(m)
                \/ ~is_valid_signer_index(Len(signer_pubkeys))
                \/ m > Len(signer_pubkeys)
             THEN Err(MissingRequiredSignature)
        ELSE Ok([program_id |-> token_program_id,
                 data |-> pack([variant |-> "InitializeMultisig", m |-> m]),
                 accounts |->
                    <<AccountMetaNew(multisig_pubkey, FALSE),
                      AccountMetaNewReadonly(RentSysvarId, FALSE)>>
                    \o [i \in 1 .. Len(signer_pubkeys) |->
                            AccountMetaNewReadonly(signer_pubkeys[i], FALSE)]])

initialize_multisig2(token_program_id, multisig_pubkey, signer_pubkeys, m) ==
    LET c == check_program_account(token_program_id)
    IN  IF ~c.ok THEN c
        ELSE IF \/ ~is_valid_signer_index(m)
                \/ ~is_valid_signer_index(Len(signer_pubkeys))
                \/ m > Len(signer_pubkeys)
             THEN Err(MissingRequiredSignature)
        ELSE Ok([program_id |-> token_program_id,
                 data |-> pack([variant |-> "InitializeMultisig2", m |-> m]),
                 accounts |->
                    <<AccountMetaNew(multisig_pubkey, FALSE)>>
                    \o [i \in 1 .. Len(signer_pubkeys) |->
                            AccountMetaNewReadonly(signer_pubkeys[i], FALSE)]])

(***************************************************************************)
(* The builders that take an authority and a list of signer keys.  Each    *)
(* pushes its leading accounts, then the authority, read-only and a signer *)
(* when signer_pubkeys is empty, then every key of signer_pubkeys,         *)
(* read-only and a signer.                                                 *)
(***************************************************************************)
\* the authority marked as a signer whatever signer_pubkeys holds
authority_always_signer(authority_pubkey, signer_pubkeys) ==
    <<AccountMetaNewReadonly(authority_pubkey, TRUE)>>
        \o [i \in 1 .. Len(signer_pubkeys) |->
                AccountMetaNewReadonly(signer_pubkeys[i], TRUE)]

authority_and_signers(authority_pubkey, signer_pubkeys) ==
    <<AccountMetaNewReadonly(authority_pubkey, signer_pubkeys = <<>>)>>
        \o [i \in 1 .. Len(signer_pubkeys) |->
                AccountMetaNewReadonly(signer_pubkeys[i], TRUE)]

transfer(token_program_id, source_pubkey, destination_pubkey, authority_pubkey, signer_pubkeys, amount) ==
    LET c == check_program_account(token_program_id)
    IN  IF ~c.ok THEN c
        ELSE Ok([program_id |-> token_program_id,
                 data |-> pack([variant |-> "Transfer", amount |-> amount]),
                 accounts |->
                    <<AccountMetaNew(source_pubkey, FALSE),
                      AccountMetaNew(destination_pubkey, FALSE)>>
                    \o authority_and_signers(authority_pubkey, signer_pubkeys)])

revoke(token_program_id, source_pubkey, owner_pubkey, signer_pubkeys) ==
    LET c == check_program_account(token_program_id)
    IN  IF ~c.ok THEN c
        ELSE Ok([program_id |-> token_program_id,
                 data |-> pack([variant |-> "Revoke"]),
                 accounts |->
                    <<AccountMetaNew(source_pubkey, FALSE)>>
                    \o authority_and_signers(owner_pubkey, signer_pubkeys)])

set_authority(token_program_id, owned_pubkey, new_authority_pubkey, authority_type, owner_pubkey, signer_pubkeys) ==
    LET c == check_program_account(token_program_id)
    IN  IF ~c.ok THEN c
        ELSE Ok([program_id |-> token_program_id,
                 data |-> pack([variant |-> "SetAuthority", authority_type |-> authority_type,
                             new_authority |-> new_authority_pubkey]),
                 accounts |->
                    <<AccountMetaNew(owned_pubkey, FALSE)>>
                    \o authority_and_signers(owner_pubkey, signer_pubkeys)])

mint_to(token_program_id, mint_pubkey, account_pubkey, owner_pubkey, signer_pubkeys, amount) ==
    LET c == check_program_account(token_program_id)
    IN  IF ~c.ok THEN c
        ELSE Ok([program_id |-> token_program_id,
                 data |-> pack([variant |-> "MintTo", amount |-> amount]),
                 accounts |->
                    <<AccountMetaNew(mint_pubkey, FALSE),
                      AccountMetaNew(account_pubkey, FALSE)>>
                    \o authority_and_signers(owner_pubkey, signer_pubkeys)])

burn(token_program_id, account_pubkey, mint_pubkey, authority_pubkey, signer_pubkeys, amount) ==
    LET c == check_program_account(token_program_id)
    IN  IF ~c.ok THEN c
        ELSE Ok([program_id |-> token_program_id,
                 data |-> pack([variant |-> "Burn", amount |-> amount]),
                 accounts |->
                    <<AccountMetaNew(account_pubkey, FALSE),
                      AccountMetaNew(mint_pubkey, FALSE)>>
                    \o authority_and_signers(authority_pubkey, signer_pubkeys)])

close_account(token_program_id, account_pubkey, destination_pubkey, owner_pubkey, signer_pubkeys) ==
    LET c == check_program_account(token_program_id)
    IN  IF ~c.ok THEN c
        ELSE Ok([program_id |-> token_program_id,
                 data |-> pack([variant |-> "CloseAccount"]),
                 accounts |->
                    <<AccountMetaNew(account_pubkey, FALSE),
                      AccountMetaNew(destination_pubkey, FALSE)>>
                    \o authority_and_signers(owner_pubkey, signer_pubkeys)])

freeze_account(token_program_id, account_pubkey, mint_pubkey, owner_pubkey, signer_pubkeys) ==
    LET c == check_program_account(token_program_id)
    IN  IF ~c.ok THEN c
        ELSE Ok([program_id |-> token_program_id,
                 data |-> pack([variant |-> "FreezeAccount"]),
                 accounts |->
                    <<AccountMetaNew(account_pubkey, FALSE),
                      AccountMetaNewReadonly(mint_pubkey, FALSE)>>
                    \o authority_and_signers(owner_pubkey, signer_pubkeys)])

thaw_account(token_program_id, account_pubkey, mint_pubkey, owner_pubkey, signer_pubkeys) ==
    LET c == check_program_account(token_program_id)
    IN  IF ~c.ok THEN c
        ELSE Ok([program_id |-> token_program_id,
                 data |-> pack([variant |-> "ThawAccount"]),
                 accounts |->
                    <<AccountMetaNew(account_pubkey, FALSE),
                      AccountMetaNewReadonly(mint_pubkey, FALSE)>>
                    \o authority_and_signers(owner_pubkey, signer_pubkeys)])

transfer_checked(token_program_id, source_pubkey, destination_pubkey, mint_pubkey, authority_pubkey, signer_pubkeys, amount, decimals) ==
    LET c == check_program_account(token_program_id)
    IN  IF ~c.ok THEN c
        ELSE Ok([program_id |-> token_program_id,
                 data |-> pack([variant |-> "TransferChecked", amount |-> amount,
                             decimals |-> decimals]),
                 accounts |->
                    <<AccountMetaNew(source_pubkey, FALSE),
                      AccountMetaNew(destination_pubkey, FALSE),
                      AccountMetaNewReadonly(mint_pubkey, FALSE)>>
                    \o authority_and_signers(authority_pubkey, signer_pubkeys)])

approve_checked(token_program_id, source_pubkey, mint_pubkey, delegate_pubkey, owner_pubkey, signer_pubkeys, amount, decimals) ==
    LET c == check_program_account(token_program_id)
    IN  IF ~c.ok THEN c
        ELSE Ok([program_id |-> token_program_id,
                 data |-> pack([variant |-> "ApproveChecked", amount |-> amount,
                             decimals |-> decimals]),
                 accounts |->
                    <<AccountMetaNew(source_pubkey, FALSE),
                      AccountMetaNewReadonly(mint_pubkey, FALSE),
                      AccountMetaNew(delegate_pubkey, FALSE)>>
                    \o authority_and_signers(owner_pubkey, signer_pubkeys)])

mint_to_checked(token_program_id, mint_pubkey, account_pubkey, owner_pubkey, signer_pubkeys, amount, decimals) ==
    LET c == check_program_account(token_program_id)
    IN  IF ~c.ok THEN c
        ELSE Ok([program_id |-> token_program_id,
                 data |-> pack([variant |-> "MintToChecked", amount |-> amount,
                             decimals |-> decimals]),
                 accounts |->
                    <<AccountMetaNew(mint_pubkey, FALSE),
                      AccountMetaNew(account_pubkey, FALSE)>>
                    \o authority_and_signers(owner_pubkey, signer_pubkeys)])

burn_checked(token_program_id, account_pubkey, mint_pubkey, authority_pubkey, signer_pubkeys, amount, decimals) ==
    LET c == check_program_account(token_program_id)
    IN  IF ~c.ok THEN c
        ELSE Ok([program_id |-> token_program_id,
                 data |-> pack([variant |-> "BurnChecked", amount |-> amount,
                             decimals |-> decimals]),
                 accounts |->
                    <<AccountMetaNew(account_pubkey, FALSE),
                      AccountMetaNew(mint_pubkey, FALSE)>>
                    \o authority_and_signers(authority_pubkey, signer_pubkeys)])

(***************************************************************************)
(* The inputs.                                                             *)
(***************************************************************************)
\* a key whose bytes differ from one position to the next
Key(b) == [i \in 1 .. PUBKEY_BYTES |-> (b + i - 1) % 256]
Keys == {Key(0), Key(1), Key(224)}
COptionKeys == {COptionNone} \cup {COptionSome(k) : k \in Keys}

\* a u64 below 2^32, from its number
U64(n) == <<0, 0, n \div 65536, n % 65536>>
U64Max == <<65535, 65535, 65535, 65535>>
Amounts ==
    {U64(0), U64(1), U64(255), U64(256), U64(1000000), <<0, 1, 0, 0>>,
     <<32768, 0, 0, 0>>, <<258, 772, 1286, 1800>>, U64Max}
Decimals == {0, 9, 255}
Thresholds == {0, 1, 11, 255}

\* "", "0", "1.25", "é", "1€" and an emoji, as UTF-8
Texts ==
    {<<>>, <<48>>, <<49, 46, 50, 53>>, <<195, 169>>, <<49, 226, 130, 172>>,
     <<240, 159, 152, 128>>}

Instructions ==
    [variant : {"InitializeMint", "InitializeMint2"}, decimals : Decimals,
     mint_authority : Keys, freeze_authority : COptionKeys]
    \cup [variant : {"InitializeAccount", "Revoke", "CloseAccount",
                     "FreezeAccount", "ThawAccount", "SyncNative",
                     "GetAccountDataSize", "InitializeImmutableOwner"}]
    \cup [variant : {"InitializeMultisig", "InitializeMultisig2"}, m : Thresholds]
    \cup [variant : {"Transfer", "Approve", "MintTo", "Burn", "AmountToUiAmount"},
          amount : Amounts]
    \cup [variant : {"SetAuthority"}, authority_type : AuthorityTypes,
          new_authority : COptionKeys]
    \cup [variant : {"TransferChecked", "ApproveChecked", "MintToChecked",
                     "BurnChecked"}, amount : Amounts, decimals : Decimals]
    \cup [variant : {"InitializeAccount2", "InitializeAccount3"}, owner : Keys]
    \cup [variant : {"UiAmountToAmount"}, ui_amount : Texts]

\* a raw payload of n bytes: first byte a (a decimals, threshold or authority
\* type byte), byte o where tag 6 and tags 0 and 20 read the presence byte of
\* the optional key, every other byte a function of its position
Payload(n, a, o, f) ==
    [i \in 1 .. n |->
        IF i = 1 THEN a ELSE IF i \in {2, PUBKEY_BYTES + 2} THEN o ELSE (f + i) % 256]

\* payloads that are malformed UTF-8: a lone continuation byte, an overlong
\* form, a surrogate, a truncated sequence, a code point above U+10FFFF
BadTexts ==
    {<<128>>, <<192, 128>>, <<237, 160, 128>>, <<49, 226, 130>>,
     <<244, 144, 128, 128>>, <<49, 255>>}

RawPayloads ==
    {Payload(n, a, o, f) : n \in 0 .. MaxPayload, a \in {0, 3, 4}, o \in {0, 1, 2},
                           f \in {7, 200}}
    \cup Texts \cup BadTexts

RawBuffers ==
    {<<>>} \cup {<<t>> \o p : t \in (0 .. MaxTag) \cup {255}, p \in RawPayloads}

RECURSIVE SeqsUpTo(_, _)
SeqsUpTo(S, n) ==
    IF n = 0 THEN {<<>>}
    ELSE LET shorter == SeqsUpTo(S, n - 1)
         IN  shorter \cup {Append(s, b) : s \in shorter, b \in S}

Extras == SeqsUpTo({0, 200}, MaxExtra)

\* the 36-byte fields a record buffer may hold before it is written or read
RawFields ==
    {<<t1, t2, t3, t4>> \o [i \in 1 .. PUBKEY_BYTES |-> (f * i) % 256] :
        t1 \in {0, 1, 2}, t2 \in {0, 1}, t3 \in {0, 1}, t4 \in {0, 1}, f \in {0, 1, 9}}

NotRun == Err("NotRun")
NoIx == [variant |-> "None"]

\* record values
COptionU64s ==
    {COptionNone, COptionSome(U64(0)), COptionSome(U64(1)),
     COptionSome(<<258, 772, 1286, 1800>>), COptionSome(U64Max)}
SomeCOptionKeys == {COptionNone, COptionSome(Key(1)), COptionSome(Key(224))}

Mints ==
    [mint_authority : SomeCOptionKeys, supply : {U64(0), U64(1000000), U64Max},
     decimals : {0, 9}, is_initialized : BOOLEAN, freeze_authority : SomeCOptionKeys]

Accounts ==
    [mint : {Key(0)}, owner : {Key(1), Key(224)}, amount : {U64(1), U64Max},
     delegate : {COptionNone, COptionSome(Key(1))}, state : AccountStates,
     is_native : COptionU64s, delegated_amount : {U64(0), <<258, 772, 1286, 1800>>},
     close_authority : {COptionNone, COptionSome(Key(224))}]

\* a multisig of m out of n signers: n keys, then keys of zeros
ZeroKey == [i \in 1 .. PUBKEY_BYTES |-> 0]
Multisigs ==
    {[m |-> mn[1], n |-> mn[2], is_initialized |-> f,
      signers |-> [i \in 1 .. MAX_SIGNERS |-> IF i <= mn[2] THEN Key(i) ELSE ZeroKey]] :
        mn \in {<<1, 1>>, <<1, MAX_SIGNERS>>, <<2, 3>>, <<MAX_SIGNERS, MAX_SIGNERS>>},
        f \in BOOLEAN}

OptionAmounts == [value : COptionU64s]

RecordKinds == {"Mint", "Account", "Multisig", "OptionU64"}

RecordLen(kind) ==
    CASE kind = "Mint" -> MINT_LEN
      [] kind = "Account" -> ACCOUNT_LEN
      [] kind = "Multisig" -> MULTISIG_LEN
      [] kind = "OptionU64" -> 12

RecordValues(kind) ==
    CASE kind = "Mint" -> Mints
      [] kind = "Account" -> Accounts
      [] kind = "Multisig" -> Multisigs
      [] kind = "OptionU64" -> OptionAmounts

\* n bytes that differ from one position to the next (f > 0), or n zeros
PatternBuf(n, f) == [i \in 1 .. n |-> (f * i) % 256]

\* what a destination may hold before it is written
Priors(kind) == {PatternBuf(RecordLen(kind), f) : f \in {0, 3}}

\* 36-byte optional-key fields with a good and a bad tag, 12-byte optional-amount
\* fields, and the 8 bytes of an amount
SomeRawFields == {f \in RawFields : f[2] = 0 /\ f[4] = 0 /\ f[6] \in {0, 18}}
FewRawFields == {f \in SomeRawFields : f[3] = 0 /\ f[6] = 18}
RawAmounts == {PatternBuf(U64_BYTES, 0), <<1, 0, 0, 0, 0, 0, 0, 0>>, <<1, 2, 3, 4, 5, 6, 7, 8>>}
RawOptionAmounts == {<<t, 0, 0, 0>> \o a : t \in {0, 1, 2}, a \in RawAmounts}

RawMints ==
    {fa \o a \o <<9, i>> \o ff :
        fa \in SomeRawFields, a \in {<<1, 2, 3, 4, 5, 6, 7, 8>>}, i \in {0, 1, 2, 255},
        ff \in SomeRawFields}

RawAccounts ==
    {Key(7) \o Key(224) \o <<1, 2, 3, 4, 5, 6, 7, 8>> \o d \o <<st>> \o n
        \o <<8, 7, 6, 5, 4, 3, 2, 1>> \o c :
        d \in FewRawFields, st \in {0, 1, 2, 3, 255}, n \in RawOptionAmounts,
        c \in FewRawFields}

RawMultisigs ==
    {<<m, n, f>> \o PatternBuf(PUBKEY_BYTES * MAX_SIGNERS, 5) :
        m \in {0, 1, 2, MAX_SIGNERS, MAX_SIGNERS + 1},
        n \in {0, 1, 2, MAX_SIGNERS, MAX_SIGNERS + 1}, f \in {0, 1, 2}}

\* slices of every length up to the record's and MaxExtra bytes beyond it
Slices(kind) ==
    {PatternBuf(n, f) : n \in 0 .. RecordLen(kind) + MaxExtra, f \in {0, 3}}

\* the optional-amount field is an array of 12 bytes, never shorter
RawRecords(kind) ==
    CASE kind = "Mint" -> RawMints \cup Slices(kind)
      [] kind = "Account" -> RawAccounts \cup Slices(kind)
      [] kind = "Multisig" -> RawMultisigs \cup Slices(kind)
      [] kind = "OptionU64" -> RawOptionAmounts \cup {PatternBuf(12, 3)}

NoRec == [kind |-> "None"]

\* the ids and keys the builders are called with
SignerKeys(n) == [i \in 1 .. n |-> Key(i)]
MultisigKey == Key(100)

(***************************************************************************)
(* The instruction codec: a client packs an instruction and the program    *)
(* unpacks the buffer, or the program unpacks a buffer of any bytes; then  *)
(* the same buffer is unpacked with trailing bytes after it.               *)
(***************************************************************************)
IxIdle ==
    /\ pc = "idle" /\ ix = NoIx /\ buf = <<>> /\ res = NotRun
    /\ extra = <<>> /\ resExt = NotRun

StIdle ==
    spc = "idle" /\ src = COptionNone /\ dst = <<>> /\ keyRes = NotRun

RecIdle ==
    /\ rpc = "idle" /\ rkind = "None" /\ rval = NoRec /\ rbuf = <<>> /\ rdst = <<>>
    /\ rres = NotRun /\ tagMatch = "prefix" /\ frozen = FALSE /\ depth = 0
    /\ nativeRet = "none"

NoCall == [fn |-> "none"]

BldIdle == call = NoCall /\ built = NotRun

Init ==
    /\ \/ pc = "encode" /\ ix \in Instructions /\ buf = <<>>
       \/ pc = "decode" /\ ix = NoIx /\ buf \in RawBuffers
    /\ res = NotRun
    /\ extra = <<>>
    /\ resExt = NotRun
    /\ StIdle
    /\ RecIdle
    /\ BldIdle

Pack ==
    /\ pc = "encode"
    /\ buf' = pack(ix)
    /\ pc' = "decode"
    /\ UNCHANGED <<ix, res, extra, resExt, stVars, recVars, bldVars>>

Unpack ==
    /\ pc = "decode"
    /\ res' = unpack(buf)
    /\ pc' = "extend"
    /\ UNCHANGED <<ix, buf, extra, resExt, stVars, recVars, bldVars>>

UnpackExtended ==
    /\ pc = "extend"
    /\ \E e \in Extras :
          /\ extra' = e
          /\ resExt' = unpack(buf \o e)
    /\ pc' = "done"
    /\ UNCHANGED <<ix, buf, res, stVars, recVars, bldVars>>

Next == Pack \/ Unpack \/ UnpackExtended

Spec == Init /\ [][Next]_vars

(***************************************************************************)
(* The optional-key field of a record: written by pack_coption_key over    *)
(* whatever the field held, and read by unpack_coption_key.                *)
(***************************************************************************)
InitState ==
    /\ IxIdle
    /\ RecIdle
    /\ BldIdle
    /\ spc = "start"
    /\ src \in COptionKeys
    /\ dst \in RawFields
    /\ keyRes = NotRun

PackCoptionKey ==
    /\ spc = "start"
    /\ dst' = pack_coption_key(src, dst)
    /\ spc' = "packed"
    /\ UNCHANGED <<src, keyRes, ixVars, recVars, bldVars>>

UnpackCoptionKey ==
    /\ spc \in {"start", "packed"}
    /\ keyRes' = unpack_coption_key(dst)
    /\ spc' = IF spc = "start" THEN "readRaw" ELSE "readPacked"
    /\ UNCHANGED <<src, dst, ixVars, recVars, bldVars>>

NextState == PackCoptionKey \/ UnpackCoptionKey

SpecState == InitState /\ [][NextState]_vars

(***************************************************************************)
(* The records.  A record value is packed into a destination that holds    *)
(* any bytes and the destination is unpacked; or a slice of any bytes is   *)
(* unpacked and the record read is packed into a destination, which may be *)
(* the slice itself.  is_frozen is called on an account that was read, and *)
(* is_native on an account value.                                          *)
(***************************************************************************)
\* the depth of the call stack at which a further call overflows it
StackFrames == 4

\* Pack::pack_into_slice and Pack::unpack_from_slice of the record type, and the
\* two functions of the optional-amount field
pack_into_slice(kind, v, d) ==
    CASE kind = "Mint" -> MintPackIntoSlice(v, d)
      [] kind = "Account" -> AccountPackIntoSlice(v, d)
      [] kind = "Multisig" -> MultisigPackIntoSlice(v, d)
      [] kind = "OptionU64" -> pack_coption_u64(v.value, d)

unpack_from_slice(kind, b, how) ==
    CASE kind = "Mint" -> MintUnpackFromSlice(b)
      [] kind = "Account" -> AccountUnpackFromSlice(b, how)
      [] kind = "Multisig" -> MultisigUnpackFromSlice(b)
      [] kind = "OptionU64" ->
            LET r == unpack_coption_u64(b, how)
            IN  IF r.ok THEN Ok([value |-> r.val]) ELSE r

\* only the decoding of an optional amount depends on the reading of its match
TagMatchesOf(kind) ==
    IF kind \in {"Account", "OptionU64"} THEN TagMatches ELSE {"prefix"}

InitRecord ==
    /\ IxIdle
    /\ StIdle
    /\ BldIdle
    /\ rkind \in RecordKinds
    /\ tagMatch \in TagMatchesOf(rkind)
    /\ \/ rpc = "encode" /\ rval \in RecordValues(rkind) /\ rdst \in Priors(rkind)
          /\ rbuf = <<>>
       \/ rpc = "decode" /\ rval = NoRec /\ rbuf \in RawRecords(rkind) /\ rdst = <<>>
    /\ rres = NotRun
    /\ frozen = FALSE
    /\ depth = 0
    /\ nativeRet = "none"

PackRecord ==
    /\ rpc = "encode"
    /\ rdst' = pack_into_slice(rkind, rval, rdst)
    /\ rpc' = "packed"
    /\ UNCHANGED <<rkind, rval, rbuf, rres, tagMatch, frozen, depth, nativeRet,
                   ixVars, stVars, bldVars>>

UnpackPacked ==
    /\ rpc = "packed"
    /\ rres' = unpack_from_slice(rkind, rdst, tagMatch)
    /\ rpc' = "roundtrip"
    /\ UNCHANGED <<rkind, rval, rbuf, rdst, tagMatch, frozen, depth, nativeRet,
                   ixVars, stVars, bldVars>>

UnpackRecord ==
    /\ rpc = "decode"
    /\ rres' = unpack_from_slice(rkind, rbuf, tagMatch)
    /\ rpc' = "decoded"
    /\ UNCHANGED <<rkind, rval, rbuf, rdst, tagMatch, frozen, depth, nativeRet,
                   ixVars, stVars, bldVars>>

RepackRecord ==
    /\ rpc = "decoded"
    /\ rres.ok
    /\ \E d \in Priors(rkind) \cup {rbuf} :
          rdst' = pack_into_slice(rkind, rres.val, d)
    /\ rpc' = "repacked"
    /\ UNCHANGED <<rkind, rval, rbuf, rres, tagMatch, frozen, depth, nativeRet,
                   ixVars, stVars, bldVars>>

IsFrozen ==
    /\ rpc = "repacked"
    /\ rkind = "Account"
    /\ frozen' = is_frozen(rres.val)
    /\ rpc' = "queried"
    /\ UNCHANGED <<rkind, rval, rbuf, rdst, rres, tagMatch, depth, nativeRet,
                   ixVars, stVars, bldVars>>

\* Account::is_native: the body calls is_native on self before anything else
IsNativeCall ==
    /\ rpc \in {"roundtrip", "is_native"}
    /\ rkind = "Account"
    /\ depth < StackFrames
    /\ depth' = depth + 1
    /\ rpc' = "is_native"
    /\ UNCHANGED <<rkind, rval, rbuf, rdst, rres, tagMatch, frozen, nativeRet,
                   ixVars, stVars, bldVars>>

\* no frame is left for the next call: the program aborts
IsNativeOverflow ==
    /\ rpc = "is_native"
    /\ depth = StackFrames
    /\ nativeRet' = "stack overflow"
    /\ rpc' = "aborted"
    /\ UNCHANGED <<rkind, rval, rbuf, rdst, rres, tagMatch, frozen, depth,
                   ixVars, stVars, bldVars>>

NextRecord ==
    \/ PackRecord
    \/ UnpackPacked
    \/ UnpackRecord
    \/ RepackRecord
    \/ IsFrozen
    \/ IsNativeCall
    \/ IsNativeOverflow

SpecRecord == InitRecord /\ [][NextRecord]_vars

(***************************************************************************)
(* The builders initialize_multisig and initialize_multisig2.              *)
(***************************************************************************)
\* most signer keys passed to a builder, and largest threshold below 255
MaxSignerKeys == 13
MaxThreshold == 13

InitBuilder ==
    /\ IxIdle
    /\ StIdle
    /\ RecIdle
    /\ built = NotRun
    /\ call \in [fn : {"pending"},
                  token_program_id : {TokenProgramId, OtherProgramId},
                  multisig_pubkey : {MultisigKey},
                  signer_pubkeys : {SignerKeys(n) : n \in 0 .. MaxSignerKeys},
                  m : (0 .. MaxThreshold) \cup {255}]

InitializeMultisig ==
    /\ call.fn = "pending"
    /\ call' = [call EXCEPT !.fn = "initialize_multisig"]
    /\ built' = initialize_multisig(call.token_program_id, call.multisig_pubkey,
                                    call.signer_pubkeys, call.m)
    /\ UNCHANGED <<ixVars, stVars, recVars>>

InitializeMultisig2 ==
    /\ call.fn = "pending"
    /\ call' = [call EXCEPT !.fn = "initialize_multisig2"]
    /\ built' = initialize_multisig2(call.token_program_id, call.multisig_pubkey,
                                     call.signer_pubkeys, call.m)
    /\ UNCHANGED <<ixVars, stVars, recVars>>

NextBuilder == InitializeMultisig \/ InitializeMultisig2

SpecBuilder == InitBuilder /\ [][NextBuilder]_vars

(***************************************************************************)
(* The builders that take an authority and signer keys: one call of one of *)
(* them, with any number of signer keys up to MaxSignerKeys.               *)
(***************************************************************************)
SourceKey == Key(40)
DestinationKey == Key(50)
MintKey == Key(60)
DelegateKey == Key(70)
AuthorityKey == Key(80)

InitSigner ==
    /\ IxIdle
    /\ StIdle
    /\ RecIdle
    /\ built = NotRun
    /\ call \in [fn : {"pending"},
                  token_program_id : {TokenProgramId, OtherProgramId},
                  signer_pubkeys : {SignerKeys(n) : n \in 0 .. MaxSignerKeys},
                  amount : {U64(1), U64Max},
                  decimals : {0, 9},
                  authority_type : AuthorityTypes,
                  new_authority : {COptionNone, COptionSome(Key(1))}]

CallTransfer ==
    /\ call.fn = "pending"
    /\ call' = [call EXCEPT !.fn = "transfer"]
    /\ built' = transfer(call.token_program_id, SourceKey, DestinationKey, AuthorityKey, call.signer_pubkeys,
                       call.amount)
    /\ UNCHANGED <<ixVars, stVars, recVars>>

CallRevoke ==
    /\ call.fn = "pending"
    /\ call' = [call EXCEPT !.fn = "revoke"]
    /\ built' = revoke(call.token_program_id, SourceKey, AuthorityKey, call.signer_pubkeys)
    /\ UNCHANGED <<ixVars, stVars, recVars>>

CallSetAuthority ==
    /\ call.fn = "pending"
    /\ call' = [call EXCEPT !.fn = "set_authority"]
    /\ built' = set_authority(call.token_program_id, SourceKey, call.new_authority, call.authority_type,
                       AuthorityKey, call.signer_pubkeys)
    /\ UNCHANGED <<ixVars, stVars, recVars>>

CallMintTo ==
    /\ call.fn = "pending"
    /\ call' = [call EXCEPT !.fn = "mint_to"]
    /\ built' = mint_to(call.token_program_id, MintKey, DestinationKey, AuthorityKey, call.signer_pubkeys,
                       call.amount)
    /\ UNCHANGED <<ixVars, stVars, recVars>>

CallBurn ==
    /\ call.fn = "pending"
    /\ call' = [call EXCEPT !.fn = "burn"]
    /\ built' = burn(call.token_program_id, SourceKey, MintKey, AuthorityKey, call.signer_pubkeys, call.amount)
    /\ UNCHANGED <<ixVars, stVars, recVars>>

CallCloseAccount ==
    /\ call.fn = "pending"
    /\ call' = [call EXCEPT !.fn = "close_account"]
    /\ built' = close_account(call.token_program_id, SourceKey, DestinationKey, AuthorityKey,
                       call.signer_pubkeys)
    /\ UNCHANGED <<ixVars, stVars, recVars>>

CallFreezeAccount ==
    /\ call.fn = "pending"
    /\ call' = [call EXCEPT !.fn = "freeze_account"]
    /\ built' = freeze_account(call.token_program_id, SourceKey, MintKey, AuthorityKey, call.signer_pubkeys)
    /\ UNCHANGED <<ixVars, stVars, recVars>>

CallThawAccount ==
    /\ call.fn = "pending"
    /\ call' = [call EXCEPT !.fn = "thaw_account"]
    /\ built' = thaw_account(call.token_program_id, SourceKey, MintKey, AuthorityKey, call.signer_pubkeys)
    /\ UNCHANGED <<ixVars, stVars, recVars>>

CallTransferChecked ==
    /\ call.fn = "pending"
    /\ call' = [call EXCEPT !.fn = "transfer_checked"]
    /\ built' = transfer_checked(call.token_program_id, SourceKey, DestinationKey, MintKey, AuthorityKey,
                       call.signer_pubkeys, call.amount, call.decimals)
    /\ UNCHANGED <<ixVars, stVars, recVars>>

CallApproveChecked ==
    /\ call.fn = "pending"
    /\ call' = [call EXCEPT !.fn = "approve_checked"]
    /\ built' = approve_checked(call.token_program_id, SourceKey, MintKey, DelegateKey, AuthorityKey,
                       call.signer_pubkeys, call.amount, call.decimals)
    /\ UNCHANGED <<ixVars, stVars, recVars>>

CallMintToChecked ==
    /\ call.fn = "pending"
    /\ call' = [call EXCEPT !.fn = "mint_to_checked"]
    /\ built' = mint_to_checked(call.token_program_id, MintKey, DestinationKey, AuthorityKey,
                       call.signer_pubkeys, call.amount, call.decimals)
    /\ UNCHANGED <<ixVars, stVars, recVars>>

CallBurnChecked ==
    /\ call.fn = "pending"
    /\ call' = [call EXCEPT !.fn = "burn_checked"]
    /\ built' = burn_checked(call.token_program_id, SourceKey, MintKey, AuthorityKey, call.signer_pubkeys,
                       call.amount, call.decimals)
    /\ UNCHANGED <<ixVars, stVars, recVars>>

NextSigner ==
    \/ CallTransfer
    \/ CallRevoke
    \/ CallSetAuthority
    \/ CallMintTo
    \/ CallBurn
    \/ CallCloseAccount
    \/ CallFreezeAccount
    \/ CallThawAccount
    \/ CallTransferChecked
    \/ CallApproveChecked
    \/ CallMintToChecked
    \/ CallBurnChecked

SpecSigner == InitSigner /\ [][NextSigner]_vars

(***************************************************************************)
(* Properties of the instruction codec.                                    *)
(***************************************************************************)
\* the buffer has been unpacked
Unpacked == pc \in {"extend", "done"}
\* the buffer was produced by pack from the instruction ix
Packed == pc \in {"decode", "extend", "done"} /\ ix # NoIx

\* the tag table of the wire format: the variant of tag t is VariantOfTag[t + 1]
VariantOfTag ==
    <<"InitializeMint", "InitializeAccount", "InitializeMultisig", "Transfer",
      "Approve", "Revoke", "SetAuthority", "MintTo", "Burn", "CloseAccount",
      "FreezeAccount", "ThawAccount", "TransferChecked", "ApproveChecked",
      "MintToChecked", "BurnChecked", "InitializeAccount2", "SyncNative",
      "InitializeAccount3", "InitializeMultisig2", "InitializeMint2",
      "GetAccountDataSize", "InitializeImmutableOwner", "AmountToUiAmount",
      "UiAmountToAmount">>

\* C1: unpacking the buffer pack produced for an instruction succeeds and
\* returns that instruction, for each of the 25 variants.
C1_RoundTrip == (Packed /\ Unpacked) => res = Ok(ix)

C1_Witness ==
    /\ Packed /\ Unpacked
    /\ ix.variant = "InitializeMint2"
    /\ IsSome(ix.freeze_authority)
    /\ res.ok
    /\ res.val.freeze_authority = ix.freeze_authority

\* C2: the first byte alone selects the variant unpack returns, in the order of
\* the tag table; pack writes the tag of its variant as the first byte; and a
\* buffer whose first byte is 25 or more fails whatever follows it.
C2_TagDispatch ==
    /\ Packed => buf # <<>> /\ buf[1] \in 0 .. 24 /\ VariantOfTag[buf[1] + 1] = ix.variant
    /\ (Unpacked /\ res.ok) =>
          buf # <<>> /\ buf[1] \in 0 .. 24 /\ res.val.variant = VariantOfTag[buf[1] + 1]
    /\ (Unpacked /\ buf # <<>> /\ buf[1] >= 25) => res = Err(InvalidInstruction)

C2_Witness ==
    /\ Unpacked
    /\ Len(buf) > PUBKEY_BYTES
    /\ buf[1] = 25
    /\ ~res.ok

\* C3: pack of Transfer, Approve, MintTo, Burn and AmountToUiAmount is 9 bytes,
\* the tag then the amount in 8 little-endian bytes; pack of the four Checked
\* variants is 10 bytes, the same followed by the decimals byte; unpack of these
\* bytes returns the instruction.  Transfer{1_000_000} is [3,0x40,0x42,0x0F,0,0,0,0,0].
AmountVariants == {"Transfer", "Approve", "MintTo", "Burn", "AmountToUiAmount"}
CheckedVariants ==
    {"TransferChecked", "ApproveChecked", "MintToChecked", "BurnChecked"}

\* bytes b[from .. from+7] are the little-endian bytes of the amount a: the k-th
\* 16-bit digit of a, counted from the least significant, is b[2k-1] + 256 b[2k]
IsLittleEndianOf(b, from, a) ==
    \A k \in 1 .. 4 :
        /\ b[from + 2 * k - 2] \in Byte
        /\ b[from + 2 * k - 1] \in Byte
        /\ a[5 - k] = b[from + 2 * k - 2] + 256 * b[from + 2 * k - 1]

C3_AmountLayout ==
    /\ (Packed /\ ix.variant \in AmountVariants) =>
          /\ Len(buf) = 9
          /\ IsLittleEndianOf(buf, 2, ix.amount)
    /\ (Packed /\ ix.variant \in CheckedVariants) =>
          /\ Len(buf) = 10
          /\ IsLittleEndianOf(buf, 2, ix.amount)
          /\ buf[10] = ix.decimals
    /\ (Packed /\ ix = [variant |-> "Transfer", amount |-> U64(1000000)]) =>
          buf = <<3, 64, 66, 15, 0, 0, 0, 0, 0>>
    /\ (Packed /\ Unpacked /\ ix.variant \in AmountVariants \cup CheckedVariants) =>
          res = Ok(ix)

C3_Witness ==
    /\ Packed /\ Unpacked
    /\ ix.variant = "BurnChecked"
    /\ ix.amount = <<258, 772, 1286, 1800>>
    /\ buf = <<15, 8, 7, 6, 5, 4, 3, 2, 1, 9>>
    /\ res.ok

\* C4 as claimed: the optional key of InitializeMint, InitializeMint2 and
\* SetAuthority is a 36-byte field whether the key is present or absent, so
\* the encoded length does not depend on presence.
OptionalKeyVariants == {"InitializeMint", "InitializeMint2", "SetAuthority"}
OptionalKeyOf(x) ==
    IF x.variant = "SetAuthority" THEN x.new_authority ELSE x.freeze_authority
\* the bytes before the optional key: tag, decimals and mint authority, or tag
\* and authority type
OptionalKeyOffset(x) ==
    IF x.variant = "SetAuthority" THEN 2 ELSE 2 + PUBKEY_BYTES

PayloadTags == {0, 2, 3, 4, 6, 7, 8, 12, 13, 14, 15, 16, 18, 19, 20, 23}

C5_TruncatedFails ==
    Unpacked =>
        /\ buf = <<>> => ~res.ok
        /\ (Len(buf) = 1 /\ buf[1] \in PayloadTags) => ~res.ok
        /\ ~res.ok => DOMAIN res = {"ok", "err"}

C5_Witness ==
    /\ Unpacked
    /\ Len(buf) = 1
    /\ buf[1] = 20
    /\ res = Err(InvalidInstruction)

\* C6 as claimed: unpack fails whenever the payload is shorter than the width of
\* the tag table, the optional key counting as 36 bytes present or absent.
TableWidth(t) ==
    CASE t \in {2, 19} -> 1
      [] t \in {3, 4, 7, 8, 23} -> 8
      [] t \in 12 .. 15 -> 9
      [] t \in {16, 18} -> PUBKEY_BYTES
      [] t = 6 -> 1 + 36
      [] t \in {0, 20} -> 1 + PUBKEY_BYTES + 36
      [] OTHER -> 0

MinWidth(t, payload) ==
    LET n == Len(payload)
    IN  CASE t = 6 -> IF n >= 2 /\ payload[2] = 1 THEN 2 + PUBKEY_BYTES ELSE 2
          [] t \in {0, 20} ->
                IF n >= PUBKEY_BYTES + 2 /\ payload[PUBKEY_BYTES + 2] = 1
                THEN 2 * PUBKEY_BYTES + 2
                ELSE PUBKEY_BYTES + 2
          [] OTHER -> TableWidth(t)

C7_TrailingIgnored ==
    (pc = "done" /\ res.ok /\ buf[1] <= 23) => resExt = res

C7_Witness ==
    /\ pc = "done"
    /\ res.ok
    /\ buf[1] = 18
    /\ Len(buf) = 1 + PUBKEY_BYTES
    /\ Len(extra) = MaxExtra
    /\ resExt = res

\* C8: pack of UiAmountToAmount is the byte 24 followed by exactly the bytes of
\* the text ("1.25" gives [24,'1','.','2','5']); unpack of [24] ++ bs takes all
\* of bs as the text, the empty text when bs is empty, and fails when bs is not
\* valid UTF-8.
C8_UiAmountText ==
    /\ (Packed /\ ix.variant = "UiAmountToAmount") => buf = <<24>> \o ix.ui_amount
    /\ (Packed /\ ix = [variant |-> "UiAmountToAmount", ui_amount |-> <<49, 46, 50, 53>>])
          => buf = <<24, 49, 46, 50, 53>>
    /\ (Unpacked /\ buf # <<>> /\ buf[1] = 24) =>
          /\ res.ok => res.val = [variant |-> "UiAmountToAmount", ui_amount |-> Tail(buf)]
          /\ Tail(buf) \in Texts => res.ok
          /\ (\A i \in 2 .. Len(buf) : buf[i] < 128) => res.ok
          /\ Tail(buf) \in BadTexts => res = Err(InvalidInstruction)
          /\ (\E i \in 2 .. Len(buf) : buf[i] \in {192, 193} \cup (245 .. 255)) => ~res.ok

C8_Witness ==
    /\ Unpacked
    /\ ix = NoIx
    /\ buf = <<24, 237, 160, 128>>
    /\ ~res.ok

\* C9: the authority-type codec maps MintTokens, FreezeAccount, AccountOwner and
\* CloseAccount to 0, 1, 2 and 3 and back; every byte of 4 or more is an error,
\* and unpack of a SetAuthority buffer with such a byte fails.
AuthorityTypeByte ==
    [MintTokens |-> 0, FreezeAccount |-> 1, AccountOwner |-> 2, CloseAccount |-> 3]

C9_AuthorityTypeBijection ==
    /\ (Packed /\ ix.variant = "SetAuthority") =>
          /\ buf[2] = AuthorityTypeByte[ix.authority_type]
          /\ AuthorityTypeFrom(buf[2]) = Ok(ix.authority_type)
          /\ Unpacked => res.ok /\ res.val.authority_type = ix.authority_type
    /\ (Unpacked /\ Len(buf) >= 2 /\ buf[1] = 6) =>
          /\ res.ok => /\ buf[2] \in 0 .. 3
                       /\ AuthorityTypeByte[res.val.authority_type] = buf[2]
                       /\ AuthorityTypeInto(res.val.authority_type) = buf[2]
          /\ buf[2] >= 4 => res = Err(InvalidArgument)

C9_Witness ==
    /\ Unpacked
    /\ Len(buf) > 2 + PUBKEY_BYTES
    /\ buf[1] = 6
    /\ buf[2] = 4
    /\ buf[3] = 1
    /\ res = Err(InvalidArgument)

(***************************************************************************)
(* Properties of the optional-key codec of the records.                    *)
(***************************************************************************)
\* C10: unpack_coption_key of the field pack_coption_key wrote returns the
\* value packed, Some(k) or None; unpack_coption_key fails for every 4-byte
\* tag other than [0,0,0,0] and [1,0,0,0]; with tag [0,0,0,0] it returns None
\* whatever the 32 payload bytes are.
C10_CoptionKeyCodec ==
    /\ spc = "readPacked" => keyRes = Ok(src)
    /\ spc \in {"readRaw", "readPacked"} =>
          LET tag == <<dst[1], dst[2], dst[3], dst[4]>>
          IN  /\ tag = <<0, 0, 0, 0>> => keyRes = Ok(COptionNone)
              /\ tag = <<1, 0, 0, 0>> =>
                    keyRes = Ok(COptionSome([i \in 1 .. 32 |-> dst[i + 4]]))
              /\ tag \notin {<<0, 0, 0, 0>>, <<1, 0, 0, 0>>} => ~keyRes.ok

C10_Witness ==
    /\ spc = "readRaw"
    /\ dst[1] = 0 /\ dst[2] = 0 /\ dst[3] = 0 /\ dst[4] = 0
    /\ dst[5] # 0
    /\ keyRes = Ok(COptionNone)


(***************************************************************************)
(* Properties of the record codecs.                                        *)
(***************************************************************************)
\* the record value rval was packed and the destination unpacked
RoundTripped == rpc \in {"roundtrip", "is_native", "aborted"}
\* the slice rbuf was unpacked
Decoded == rpc \in {"decoded", "repacked", "queried"}
\* the record read from rbuf was packed into rdst
Repacked == rpc \in {"repacked", "queried"}

\* C11, as claimed: for every Mint value and every Account value, unpacking the
\* buffer that pack_into_slice wrote returns Ok of the value that was packed.
C11_RecordRoundTripAsClaimed ==
    (RoundTripped /\ rkind \in {"Mint", "Account"}) => rres = Ok(rval)

\* C12, as claimed: when a slice of exactly the record length unpacks to a Mint
\* or an Account, packing the record read into a destination of that length
\* leaves the destination equal to the slice, whatever it held before.
C12_ReencodeAsClaimed ==
    (Repacked /\ rkind \in {"Mint", "Account"} /\ Len(rbuf) = RecordLen(rkind))
        => rdst = rbuf

\* C13, as claimed: unpack_from_slice of Mint and of Account never panics, and on
\* a slice shorter than the record length it returns an error value.
C13_ShortSliceIsErrorAsClaimed ==
    (Decoded /\ rkind \in {"Mint", "Account"}) =>
        /\ "panicked" \notin DOMAIN rres
        /\ Len(rbuf) < RecordLen(rkind) => (~rres.ok /\ "err" \in DOMAIN rres)

\* the state of a state byte, where the claim gives one
StateOfByte(b) ==
    CASE b = 0 -> "Uninitialized"
      [] b = 1 -> "Initialized"
      [] b = 2 -> "Frozen"
      [] OTHER -> "none"

\* C14: when Account::unpack_from_slice succeeds, the byte at offset 108 is 0, 1
\* or 2 and the state read is Uninitialized, Initialized or Frozen in that order,
\* so every other byte there makes it fail with an error value; pack writes that
\* byte for the state at offset 108; and is_frozen of an account that was read is
\* true exactly when its state is Frozen.
C14_AccountStateByte ==
    rkind = "Account" =>
        /\ (Decoded /\ Len(rbuf) >= ACCOUNT_LEN) =>
              /\ rres.ok => rres.val.state = StateOfByte(rbuf[109])
              /\ rbuf[109] \notin {0, 1, 2} => rres = Err(InvalidAccountData)
        /\ Repacked => StateOfByte(rdst[109]) = rres.val.state
        /\ (rpc = "packed" \/ RoundTripped) => StateOfByte(rdst[109]) = rval.state
        /\ rpc = "queried" => (frozen <=> rres.val.state = "Frozen")

\* a slice with the state byte 2 was read as a frozen account, packed again, and
\* is_frozen answered true
C14_Witness ==
    /\ rkind = "Account"
    /\ rpc = "queried"
    /\ Len(rbuf) >= ACCOUNT_LEN
    /\ rbuf[109] = 2
    /\ rdst[109] = 2
    /\ frozen

\* C15: when Mint::unpack_from_slice succeeds, the byte at offset 45 is 0 or 1 and
\* is_initialized is true exactly when it is 1; every other byte there makes it
\* return an error value, whatever the other bytes are; and pack_into_slice
\* writes 1 for true and 0 for false at offset 45.
C15_MintInitializedByte ==
    rkind = "Mint" =>
        /\ (Decoded /\ Len(rbuf) >= MINT_LEN) =>
              /\ rres.ok => /\ rbuf[46] \in {0, 1}
                             /\ rres.val.is_initialized <=> rbuf[46] = 1
              /\ rbuf[46] \notin {0, 1} => rres = Err(InvalidAccountData)
        /\ Repacked => rdst[46] = (IF rres.val.is_initialized THEN 1 ELSE 0)
        /\ (rpc = "packed" \/ RoundTripped) =>
              rdst[46] = (IF rval.is_initialized THEN 1 ELSE 0)

\* a slice whose optional keys are well formed and whose flag byte is 2 was
\* rejected
C15_Witness ==
    /\ rkind = "Mint"
    /\ rpc = "decoded"
    /\ Len(rbuf) = MINT_LEN
    /\ rbuf[46] = 2
    /\ Take(rbuf, 4) = <<1, 0, 0, 0>>
    /\ Field(rbuf, 46, 4) = <<0, 0, 0, 0>>
    /\ ~rres.ok

\* C16, as claimed: a call of Account::is_native returns, with true when the
\* native amount of the account is Some and false when it is None.
C16_IsNativeReturnsAsClaimed ==
    (rkind = "Account" /\ rpc = "aborted") =>
        nativeRet = (IF IsSome(rval.is_native) THEN "true" ELSE "false")

(***************************************************************************)
(* Properties of the multisig builders.                                    *)
(***************************************************************************)
\* a builder was called
Built == call.fn \in {"initialize_multisig", "initialize_multisig2"}
\* the threshold or the number of signer keys is out of 1 .. 11, or the
\* threshold is above the number of signer keys
BadSigners ==
    LET n == Len(call.signer_pubkeys)
    IN  \/ call.m < 1 \/ call.m > 11
        \/ n < 1 \/ n > 11
        \/ call.m > n
\* the data of the instruction the builder is to return
MultisigData ==
    IF call.fn = "initialize_multisig" THEN <<2, call.m>> ELSE <<19, call.m>>
ValidSignerIndexRange ==
    \A k \in 0 .. 255 : is_valid_signer_index(k) <=> (1 <= k /\ k <= 11)

\* C17, as claimed: the builders return an error exactly when the threshold or the
\* number of signer keys is out of range or the threshold is above the number of
\* keys, and otherwise an instruction with the packed variant as its data.
C17_BuilderErrorsAsClaimed ==
    /\ ValidSignerIndexRange
    /\ Built =>
          /\ ~built.ok <=> BadSigners
          /\ built.ok => built.val.data = MultisigData

\* C17: is_valid_signer_index(k) is true exactly for 1 <= k <= 11.  For a program
\* id that check_program_account accepts, the builders return the error
\* MissingRequiredSignature exactly when the threshold or the number of signer
\* keys is out of range or the threshold is above the number of keys, and
\* otherwise an instruction whose data is the tag (2, resp. 19) and m.  For a
\* program id that check_program_account rejects they return its error,
\* whatever the threshold and the keys are.
C17_BuilderErrors ==
    /\ ValidSignerIndexRange
    /\ Built =>
          LET c == check_program_account(call.token_program_id)
          IN  IF ~c.ok THEN built = c
              ELSE IF BadSigners THEN built = Err(MissingRequiredSignature)
              ELSE /\ built.ok
                   /\ built.val.data = MultisigData
                   /\ built.val.data =
                        pack([variant |-> IF call.fn = "initialize_multisig"
                                           THEN "InitializeMultisig"
                                           ELSE "InitializeMultisig2",
                              m |-> call.m])

\* initialize_multisig2 was called with the threshold 11 and 11 signer keys for
\* the token program, and returned the instruction
C17_Witness ==
    /\ call.fn = "initialize_multisig2"
    /\ call.token_program_id = TokenProgramId
    /\ call.m = 11
    /\ Len(call.signer_pubkeys) = 11
    /\ built.ok
    /\ built.val.data = <<19, 11>>

(***************************************************************************)
(* Properties of the unreachable arms, of Multisig and of the optional     *)
(* amount.                                                                 *)
(***************************************************************************)
\* C18: pack returns a sequence of bytes for every instruction value, never the
\* outcome of its unreachable!() arm; and unpack, on every buffer, with or
\* without bytes after it, never ends in the unreachable!() arm of its amount
\* branch.
C18_UnreachableNeverReached ==
    /\ Packed => (buf # UnreachableBuf /\ \A i \in 1 .. Len(buf) : buf[i] \in Byte)
    /\ Unpacked => "panicked" \notin DOMAIN res
    /\ pc = "done" => "panicked" \notin DOMAIN resExt

\* a packed Burn was unpacked through the amount branch
C18_Witness ==
    /\ Packed
    /\ pc = "done"
    /\ ix.variant = "Burn"
    /\ Len(buf) = 9
    /\ buf[1] = 8
    /\ res.ok
    /\ res.val.variant = "Burn"

C20_OptionAmountSymmetricAsClaimed ==
    (rkind = "OptionU64" /\ RoundTripped) => rres = Ok(rval)

(***************************************************************************)
(* Properties of the record layout.                                        *)
(***************************************************************************)
\* n zero bytes
Zeros(n) == [i \in 1 .. n |-> 0]

\* C21, as claimed: after pack_coption_u64 or pack_coption_key has written None,
\* the field is the tag [0,0,0,0] followed by zero bytes only (8 for an amount,
\* 32 for a key), whatever the destination held before.
C21_NoneZeroFilledAsClaimed ==
    /\ (rkind = "OptionU64" /\ rpc = "packed" /\ rval.value = COptionNone)
          => rdst = Zeros(12)
    /\ (rkind = "Mint" /\ rpc = "packed" /\ rval.mint_authority = COptionNone)
          => SubSeq(rdst, 1, 36) = Zeros(36)

\* the optional key k as the 36 bytes f hold it: the tag, and the key after a
\* tag of 1
HoldsCoptionKey(f, k) ==
    IF IsSome(k) THEN f = <<1, 0, 0, 0>> \o k[1] ELSE SubSeq(f, 1, 4) = <<0, 0, 0, 0>>

\* C22: Mint is mint_authority [0,36), supply [36,44), decimals [44],
\* is_initialized [45], freeze_authority [46,82), 82 bytes; Account is mint
\* [0,32), owner [32,64), amount [64,72), delegate [72,108), state [108],
\* is_native [109,121), delegated_amount [121,129), close_authority [129,165),
\* 165 bytes.  pack_into_slice writes each field into its range and
\* unpack_from_slice, when it succeeds, has read each field from the same range;
\* supply, amount and delegated_amount are little-endian in both directions.
C22_FieldOffsets ==
    /\ (rkind = "Mint" /\ rpc = "packed") =>
          /\ Len(rdst) = 82
          /\ HoldsCoptionKey(SubSeq(rdst, 1, 36), rval.mint_authority)
          /\ IsLittleEndianOf(rdst, 37, rval.supply)
          /\ rdst[45] = rval.decimals
          /\ rdst[46] = (IF rval.is_initialized THEN 1 ELSE 0)
          /\ HoldsCoptionKey(SubSeq(rdst, 47, 82), rval.freeze_authority)
    /\ (rkind = "Mint" /\ Decoded /\ rres.ok) =>
          /\ HoldsCoptionKey(SubSeq(rbuf, 1, 36), rres.val.mint_authority)
          /\ IsLittleEndianOf(rbuf, 37, rres.val.supply)
          /\ rbuf[45] = rres.val.decimals
          /\ rbuf[46] = (IF rres.val.is_initialized THEN 1 ELSE 0)
          /\ HoldsCoptionKey(SubSeq(rbuf, 47, 82), rres.val.freeze_authority)
    /\ (rkind = "Account" /\ rpc = "packed") =>
          /\ Len(rdst) = 165
          /\ SubSeq(rdst, 1, 32) = rval.mint
          /\ SubSeq(rdst, 33, 64) = rval.owner
          /\ IsLittleEndianOf(rdst, 65, rval.amount)
          /\ HoldsCoptionKey(SubSeq(rdst, 73, 108), rval.delegate)
          /\ StateOfByte(rdst[109]) = rval.state
          /\ SubSeq(rdst, 110, 113) =
                (IF IsSome(rval.is_native) THEN <<1, 0, 0, 0>> ELSE <<0, 0, 0, 0>>)
          /\ IsLittleEndianOf(rdst, 122, rval.delegated_amount)
          /\ HoldsCoptionKey(SubSeq(rdst, 130, 165), rval.close_authority)
    /\ (rkind = "Account" /\ Decoded /\ rres.ok) =>
          /\ SubSeq(rbuf, 1, 32) = rres.val.mint
          /\ SubSeq(rbuf, 33, 64) = rres.val.owner
          /\ IsLittleEndianOf(rbuf, 65, rres.val.amount)
          /\ HoldsCoptionKey(SubSeq(rbuf, 73, 108), rres.val.delegate)
          /\ StateOfByte(rbuf[109]) = rres.val.state
          /\ SubSeq(rbuf, 110, 113) =
                (IF IsSome(rres.val.is_native) THEN <<1, 0, 0, 0>> ELSE <<0, 0, 0, 0>>)
          /\ IsLittleEndianOf(rbuf, 122, rres.val.delegated_amount)
          /\ HoldsCoptionKey(SubSeq(rbuf, 130, 165), rres.val.close_authority)

\* an account slice with a delegate, the state byte 1 and the amount bytes
\* 1 .. 8 was read, and the amount has 0x0807 as its most significant digit
C22_Witness ==
    /\ rkind = "Account"
    /\ rpc = "decoded"
    /\ rres.ok
    /\ Len(rbuf) = 165
    /\ rbuf[109] = 1
    /\ IsSome(rres.val.delegate)
    /\ rres.val.amount[1] = 2055

\* p is a prefix of b
IsPrefix(p, b) == Len(p) <= Len(b) /\ SubSeq(b, 1, Len(p)) = p

\* C23: when unpack succeeds on a buffer, pack of the instruction it returns is
\* a prefix of that buffer, and the whole buffer when the tag is 24.
C23_ReencodeIsPrefix ==
    /\ (Unpacked /\ res.ok) =>
          /\ IsPrefix(pack(res.val), buf)
          /\ buf[1] = 24 => pack(res.val) = buf
    /\ (pc = "done" /\ resExt.ok) =>
          /\ IsPrefix(pack(resExt.val), buf \o extra)
          /\ buf[1] = 24 => pack(resExt.val) = buf \o extra

\* a SetAuthority buffer with an absent key and bytes after the presence byte
\* was unpacked
C23_Witness ==
    /\ ix = NoIx
    /\ pc = "done"
    /\ Len(buf) > 3
    /\ buf[1] = 6
    /\ buf[3] = 0
    /\ res.ok
    /\ pack(res.val) = SubSeq(buf, 1, 3)

(***************************************************************************)
(* Properties of the builders with an authority and signer keys.           *)
(***************************************************************************)
SignerBuilders ==
    {"transfer", "revoke", "set_authority", "mint_to", "burn", "close_account",
     "freeze_account", "thaw_account", "transfer_checked", "approve_checked",
     "mint_to_checked", "burn_checked"}

\* the place of the authority among the accounts of the instruction
AuthorityIndex(fn) ==
    CASE fn \in {"revoke", "set_authority"} -> 2
      [] fn \in {"transfer_checked", "approve_checked"} -> 4
      [] OTHER -> 3

\* C24: in the instruction a builder with an authority and signer_pubkeys returns,
\* the authority account is marked as a signer exactly when signer_pubkeys is
\* empty; the accounts after it are the keys of signer_pubkeys, in order, each
\* read-only and a signer; and at least one account is marked as a signer.
C24_SignerAccounts ==
    (call.fn \in SignerBuilders /\ built.ok) =>
        LET a == built.val.accounts
            k == AuthorityIndex(call.fn)
            n == Len(call.signer_pubkeys)
        IN  /\ Len(a) = k + n
            /\ a[k].pubkey = AuthorityKey
            /\ a[k].is_signer <=> n = 0
            /\ \A i \in 1 .. n :
                  /\ a[k + i].pubkey = call.signer_pubkeys[i]
                  /\ ~a[k + i].is_writable
                  /\ a[k + i].is_signer
            /\ \E j \in 1 .. Len(a) : a[j].is_signer

\* transfer_checked was called with two signer keys and returned an instruction
\* whose authority is no signer
C24_Witness ==
    /\ call.fn = "transfer_checked"
    /\ built.ok
    /\ Len(call.signer_pubkeys) = 2
    /\ Len(built.val.accounts) = 6
    /\ ~built.val.accounts[4].is_signer
    /\ built.val.accounts[6].pubkey = Key(2)

====
